---- MODULE Spec2Model ----
(***************************************************************************)
(* Model of the truthbubble-api serverless handlers:                       *)
(*   src/api/verify.ts   text verify, variant A  (handler "verify_ts")     *)
(*   src/api/verify.js   text verify, variant B  (handler "verify_js")     *)
(*   src/verify.js       heuristic-only verify   (handler "heuristic")     *)
(*   src/api/analyze.js  image verify            (handler "analyze")       *)
(*   src/unnamed/part_000 placeholder image endpoint ("placeholder")       *)
(* One request is followed from arrival to its response.  The suspension   *)
(* points of a handler (its outbound calls) separate the actions.          *)
(***************************************************************************)
EXTENDS Integers, Sequences, FiniteSets, TLC

VARIABLES handler, pc, req, env, sources, calls, searchOutcome, modelOutcome, res

vars == <<handler, pc, req, env, sources, calls, searchOutcome, modelOutcome, res>>

(***************************************************************************)
(* Bounds of the model.                                                    *)
(***************************************************************************)
MaxSrc == 6        \* longest provider-supplied sources array
MaxSearch == 6     \* longest search results array
MaxDigits == 11    \* most digit characters in a heuristic text

(***************************************************************************)
(* JavaScript values.  Every value carries its type tag.  A string is a    *)
(* sequence of one-character strings.                                      *)
(***************************************************************************)
Undef == [t |-> "undefined"]
Null == [t |-> "null"]
Str(s) == [t |-> "string", v |-> s]
Num(n) == [t |-> "number", v |-> n]
Arr(a) == [t |-> "array", v |-> a]
Obj(f) == [t |-> "object", v |-> f]

\* a JavaScript exception propagating out of an expression
Throw == [t |-> "throw"]

Rep(c, n) == [i \in 1..n |-> c]

Min(a, b) == IF a < b THEN a ELSE b

\* x.slice(0, n) on a string or an array
Slice(s, n) == SubSeq(s, 1, Min(Len(s), n))

\* !!v
Truthy(v) ==
  CASE v.t = "undefined" -> FALSE
    [] v.t = "null" -> FALSE
    [] v.t = "string" -> Len(v.v) > 0
    [] v.t = "number" -> v.v # 0
    [] OTHER -> TRUE

\* o.k on an object value: a missing key reads as undefined
Get(o, k) == IF k \in DOMAIN o.v THEN o.v[k] ELSE Undef

\* o?.k / o.k on any value that is not null or undefined
Prop(o, k) == IF o.t = "object" THEN Get(o, k) ELSE Undef

(***************************************************************************)
(* IEEE 754 binary64 arithmetic on the values the heuristic score takes.   *)
(* A double d with 0 <= d < 4 that is a multiple of 2^-57 is the pair      *)
(* <<hi, lo>> with d = (hi * 2^29 + lo) * 2^-57 and 0 <= lo < 2^29.        *)
(***************************************************************************)
Limb == 2^29

Dbl(h, l) == [hi |-> h, lo |-> l]

\* the spacing of doubles around the exact value <<hi, lo>>, in units of 2^-57
Quantum(h) ==
  IF h >= 2^28 THEN 32
  ELSE IF h >= 2^27 THEN 16
  ELSE IF h >= 2^26 THEN 8
  ELSE IF h >= 2^25 THEN 4
  ELSE IF h >= 2^24 THEN 2
  ELSE 1

\* round-to-nearest, ties-to-even, of the exact value <<h, l>>
RoundNearestEven(h, l) ==
  LET q == Quantum(h)
      r == l % q
      down == l - r
      up == down + q
      pick == IF 2 * r < q THEN down
              ELSE IF 2 * r > q THEN up
              ELSE IF (down \div q) % 2 = 0 THEN down ELSE up
  IN IF pick = Limb THEN Dbl(h + 1, 0) ELSE Dbl(h, pick)

\* x + y
FAdd(x, y) ==
  LET l == x.lo + y.lo
      h == x.hi + y.hi
  IN IF l >= Limb THEN RoundNearestEven(h + 1, l - Limb)
     ELSE RoundNearestEven(h, l)

\* x - y, for x >= y
FSub(x, y) ==
  LET l == x.lo - y.lo
      h == x.hi - y.hi
  IN IF l < 0 THEN RoundNearestEven(h - 1, l + Limb)
     ELSE RoundNearestEven(h, l)

FLe(x, y) == x.hi < y.hi \/ (x.hi = y.hi /\ x.lo <= y.lo)

FMin(x, y) == IF FLe(x, y) THEN x ELSE y

FMax(x, y) == IF FLe(x, y) THEN y ELSE x

\* the decimal literals of src/verify.js as the doubles they denote
D0 == Dbl(0, 0)
D1 == Dbl(268435456, 0)
D0_5 == Dbl(134217728, 0)
D0_2 == Dbl(53687091, 107374184)
D0_1 == Dbl(26843545, 322122548)
D0_05 == Dbl(13421772, 429496730)
D0_75 == Dbl(201326592, 0)
D0_35 == Dbl(93952409, 322122544)
\* 0.65, the upper bound named by the confidence claim
D0_65 == Dbl(174483046, 214748368)

(***************************************************************************)
(* Requests and responses.                                                 *)
(***************************************************************************)
Handlers == {"verify_ts", "verify_js", "heuristic", "analyze", "placeholder"}

Methods == {"OPTIONS", "GET", "POST", "PUT"}

NoRes == [status |-> 0, body |-> [kind |-> "none"]]

ErrorBody(msg) == [kind |-> "error", error |-> msg]

Respond(st, b) == [status |-> st, body |-> b]

(***************************************************************************)
(* src/verify.js: the heuristic-only handler.  A text is the set of the    *)
(* phrases it contains, its number of digit characters and whether it has  *)
(* any other character.                                                    *)
(***************************************************************************)
Phrases == {"forward this", "WhatsApp", "breaking", "SHOCKING",
            "according to", "reported by", "says"}

\* String.prototype.toLowerCase on a phrase
ToLowerPhrase(p) ==
  CASE p = "WhatsApp" -> "whatsapp"
    [] p = "SHOCKING" -> "shocking"
    [] OTHER -> p

HText(w, d, o) == [t |-> "string", words |-> w, digits |-> d, other |-> o]

HTextEmpty(x) == x.words = {} /\ x.digits = 0 /\ ~x.other

HeuristicTexts ==
  {Undef, Num(7)} \cup
  {HText(w, d, o) : w \in SUBSET Phrases, d \in {0, 1, MaxDigits - 1, MaxDigits}, o \in BOOLEAN}

\* t.includes(k), t = text.toLowerCase()
Includes(x, k) == k \in {ToLowerPhrase(p) : p \in x.words}

DigitLimit == 10

Rule1(x) == Includes(x, "forward this") \/ Includes(x, "whatsapp")

Rule2(x) == Includes(x, "breaking") \/ Includes(x, "shocking")

Rule3(x) == Includes(x, "according to") \/ Includes(x, "reported by") \/ Includes(x, "says")

Rule4(x) == x.digits > DigitLimit

\* the score after the four keyword rules and the clamp
HeuristicScore(x) ==
  LET s0 == D0_5
      s1 == IF Rule1(x) THEN FSub(s0, D0_2) ELSE s0
      s2 == IF Rule2(x) THEN FSub(s1, D0_1) ELSE s1
      s3 == IF Rule3(x) THEN FAdd(s2, D0_1) ELSE s2
      s4 == IF Rule4(x) THEN FAdd(s3, D0_05) ELSE s3
  IN FMax(D0, FMin(D1, s4))

HeuristicReasons(x) ==
  LET r == (IF Rule1(x) THEN <<"Chain-forward language detected">> ELSE <<>>)
           \o (IF Rule2(x) THEN <<"Sensational phrasing detected">> ELSE <<>>)
           \o (IF Rule3(x) THEN <<"Claim references a source">> ELSE <<>>)
           \o (IF Rule4(x) THEN <<"Contains specific numbers">> ELSE <<>>)
  IN IF Len(r) = 0 THEN <<"Insufficient evidence; needs review">> ELSE r

HeuristicSources(x) ==
  IF Rule1(x)
  THEN <<[title |-> "Common WhatsApp hoax patterns (IFCN)", url |-> "https://www.poynter.org/ifcn/"]>>
  ELSE <<>>

\* the red threshold taken as strict: score < 0.35
HeuristicLabel_StrictRed(score) ==
  IF FLe(D0_75, score) THEN [label |-> "Likely True", color |-> "green"]
  ELSE IF FLe(score, D0_35) /\ score # D0_35 THEN [label |-> "Likely False", color |-> "red"]
  ELSE [label |-> "Needs Review", color |-> "yellow"]

HeuristicLabel(score) ==
  IF FLe(D0_75, score) THEN [label |-> "Likely True", color |-> "green"]
  ELSE IF FLe(score, D0_35) THEN [label |-> "Likely False", color |-> "red"]
  ELSE [label |-> "Needs Review", color |-> "yellow"]

HeuristicResponse(r) ==
  IF r.method = "OPTIONS" THEN Respond(200, [kind |-> "empty"])
  ELSE IF r.method # "POST" THEN Respond(405, ErrorBody("Use POST with JSON body { text: string }"))
  ELSE IF r.text.t # "string" \/ HTextEmpty(r.text)
    THEN Respond(400, ErrorBody("Please provide 'text' to verify."))
  ELSE LET score == HeuristicScore(r.text)
           lc == HeuristicLabel(score)
       IN Respond(200, [kind |-> "verdict", label |-> lc.label, confidence |-> score,
                        reasons |-> HeuristicReasons(r.text), color |-> lc.color,
                        sources |-> HeuristicSources(r.text)])

HeuristicHandle ==
  /\ handler = "heuristic"
  /\ pc = "start"
  /\ res' = HeuristicResponse(req)
  /\ pc' = "done"
  /\ UNCHANGED <<handler, req, env, sources, calls, searchOutcome, modelOutcome>>

(***************************************************************************)
(* JSON and string helpers shared by the model-backed handlers.            *)
(***************************************************************************)
Digit(d) == CASE d = 0 -> "0" [] d = 1 -> "1" [] d = 2 -> "2" [] d = 3 -> "3"
              [] d = 4 -> "4" [] d = 5 -> "5" [] d = 6 -> "6" [] d = 7 -> "7"
              [] d = 8 -> "8" [] OTHER -> "9"

RECURSIVE DecStr(_)
DecStr(n) == IF n < 10 THEN <<Digit(n)>> ELSE DecStr(n \div 10) \o <<Digit(n % 10)>>

\* String(v) / v.toString() on the values that reach it (numbers are naturals)
JsString(v) ==
  CASE v.t = "string" -> v.v
    [] v.t = "number" -> DecStr(v.v)
    [] v.t = "undefined" -> <<"u","n","d","e","f","i","n","e","d">>
    [] v.t = "null" -> <<"n","u","l","l">>
    [] OTHER -> <<"[","o","b","j","e","c","t"," ","O","b","j","e","c","t","]">>

LowerOf(c) ==
  CASE c = "G" -> "g" [] c = "R" -> "r" [] c = "E" -> "e" [] c = "N" -> "n"
    [] c = "Y" -> "y" [] c = "L" -> "l" [] c = "O" -> "o" [] c = "W" -> "w"
    [] c = "D" -> "d" [] c = "B" -> "b" [] c = "A" -> "a" [] OTHER -> c

\* String.prototype.toLowerCase
ToLowerCase(s) == [i \in 1..Len(s) |-> LowerOf(s[i])]

RECURSIVE TrimStart(_)
TrimStart(s) == IF Len(s) > 0 /\ s[1] = " " THEN TrimStart(Tail(s)) ELSE s

RECURSIVE TrimEnd(_)
TrimEnd(s) == IF Len(s) > 0 /\ s[Len(s)] = " " THEN TrimEnd(SubSeq(s, 1, Len(s) - 1)) ELSE s

\* String.prototype.trim
Trim(s) == TrimEnd(TrimStart(s))

\* s.startsWith(c) for a one-character c
StartsWith(s, c) == Len(s) > 0 /\ s[1] = c

\* {...o, k: v}
Put(o, k, val) == Obj([x \in DOMAIN o.v \cup {k} |-> IF x = k THEN val ELSE o.v[x]])

\* JSON.stringify followed by the client's JSON.parse: a key whose value is
\* undefined is not serialized, an undefined array element becomes null
RECURSIVE Stringify(_)
Stringify(v) ==
  CASE v.t = "object" ->
         Obj([k \in {x \in DOMAIN v.v : v.v[x].t # "undefined"} |-> Stringify(v.v[k])])
    [] v.t = "array" ->
         Arr([i \in 1..Len(v.v) |-> IF v.v[i].t = "undefined" THEN Null ELSE Stringify(v.v[i])])
    [] OTHER -> v

\* The text of a model reply: what it is and, for JSON (bare or wrapped in
\* prose without braces), the value it denotes.
Content(k, val) == [kind |-> k, value |-> val]

\* JSON.parse(txt)
JsonParse(c) ==
  CASE c.kind = "json" -> c.value
    [] OTHER -> Throw

\* a || b
Or(a, b) == IF Truthy(a) THEN a ELSE b

Nullish(v) == v.t \in {"undefined", "null"}

\* a number given in tenths (a confidence such as 0.9, 1.7 or -0.3)
Tenths(n) == [t |-> "number", v |-> n, unit |-> "tenth"]

\* a string constant whose characters the code never inspects
Text(s) == Str(<<s>>)

S_source == <<"s","o","u","r","c","e">>
S_GREEN == <<"G","R","E","E","N">>
S_YELLOW == <<"Y","E","L","L","O","W">>
S_RED == <<"R","E","D">>
S_green == <<"g","r","e","e","n">>
S_yellow == <<"y","e","l","l","o","w">>
S_red == <<"r","e","d">>
S_banana == <<"b","a","n","a","n","a">>
S_padRed == <<" ","R","e","d"," ">>

(***************************************************************************)
(* Inputs: request, environment, search-provider and model replies.        *)
(***************************************************************************)
TITLE_MAX == 140
SNIPPET_MAX == 220
CONTENT_MAX == 280
SOURCES_MAX == 5
MIN_TEXT == 10

\* sequences over the items: every one up to length FullLen, and beyond that
\* the lists that cycle through the items from each starting point
FullLen == 1

ItemLists(items, maxLen) ==
  LET k == Len(items)
      short == UNION {[1..n -> {items[i] : i \in 1..k}] : n \in 0..Min(FullLen, maxLen)}
      long == {[i \in 1..n |-> items[((i + o) % k) + 1]] : n \in (FullLen + 1)..maxLen, o \in 0..(k - 1)}
  IN short \cup long

\* results of the search provider
SearchItems ==
  << Obj([title |-> Str(Rep("a", TITLE_MAX + 1)), url |-> Str(<<"u","1">>),
          content |-> Str(Rep("x", CONTENT_MAX + 1))]),
     Obj([url |-> Str(<<"u","2">>)]),
     Obj([title |-> Str(<<"t","3">>), content |-> Str(Rep("y", SNIPPET_MAX + 1))]) >>

SearchLists == ItemLists(SearchItems, MaxSearch)

SearchBodies ==
  {Null, Obj(<<>>), Obj([results |-> Str(<<"n","o","n","e">>)])}
  \cup {Obj([results |-> Arr(l)]) : l \in SearchLists}

\* the body of a non-success reply describes the error and carries no results
SearchErrorBodies == {Null, Obj(<<>>), Obj([detail |-> Text("Unauthorized")])}

SearchOutcomes ==
  {[kind |-> "transport"], [kind |-> "badbody"]}
  \cup {[kind |-> "json", ok |-> TRUE, body |-> v] : v \in SearchBodies}
  \cup {[kind |-> "json", ok |-> FALSE, body |-> v] : v \in SearchErrorBodies}

\* the search call did not deliver a usable results list
SearchFailed(o) ==
  \/ o.kind # "json"
  \/ ~o.ok
  \/ Prop(o.body, "results").t # "array"

\* entries of a sources array in a model reply
ProviderItems ==
  << Obj([title |-> Str(Rep("b", TITLE_MAX + 1)), url |-> Str(<<"p","1">>),
          snippet |-> Str(Rep("z", CONTENT_MAX + 1))]),
     Obj([title |-> Str(<<"x">>)]),
     Obj([url |-> Str(<<"p","3">>)]) >>

\* an entry whose title is a number
NumberTitled == Obj([title |-> Num(5), url |-> Str(<<"p","4">>)])

ProviderSources ==
  {Undef, Str(<<"n","o","n","e">>), Arr(<<NumberTitled>>), Arr(<<ProviderItems[1], NumberTitled>>)}
  \cup {Arr(l) : l \in ItemLists(ProviderItems, MaxSrc)}

ProviderLabels ==
  {Undef, Str(S_GREEN), Str(S_green), Str(S_padRed), Str(S_banana)}

AnalyzeLabels ==
  {Undef, Text("TRUE"), Text("MISLEADING"), Text("FALSE"), Text("UNVERIFIABLE"), Str(S_banana)}

ProviderConfidences == {Undef, Tenths(9), Tenths(17), Tenths(-3), Text("high")}

ProviderSummaries == {Undef, Text("ok")}

\* an object without the keys whose value is undefined
Compact(f) == Obj([k \in {x \in DOMAIN f : f[x].t # "undefined"} |-> f[k]])

\* JSON values a model can reply with, for the handler's field names
ProviderValues(h) ==
  {Null, Num(5)} \cup
  IF h = "verify_ts"
  THEN {Compact([label |-> l, confidence |-> c, summary |-> m, sources |-> sv]) :
          l \in ProviderLabels, c \in ProviderConfidences, m \in ProviderSummaries,
          sv \in ProviderSources}
  ELSE IF h = "verify_js"
  THEN {Compact([verdict |-> l, rationale |-> m, sources |-> sv]) :
          l \in ProviderLabels, m \in ProviderSummaries, sv \in ProviderSources}
  ELSE {Compact([verdict |-> l, claim |-> m, explanation |-> x]) :
          l \in AnalyzeLabels, m \in ProviderSummaries, x \in ProviderSummaries}

\* the JSON objects the model wraps in prose: those without a sources list
Wrappable(v) == v.t = "object" /\ "sources" \notin DOMAIN v.v

Contents(h) ==
  {Content("missing", Undef), Content("empty", Undef), Content("text", Undef)}
  \cup {Content("json", v) : v \in ProviderValues(h)}
  \cup {Content("wrapped", v) : v \in {x \in ProviderValues(h) : Wrappable(x)}}

ModelOutcomes(h) ==
  {[kind |-> "transport"], [kind |-> "badbody"], [kind |-> "http_error"]}
  \cup {[kind |-> "ok", content |-> c] : c \in Contents(h)}

\* the model call failed: transport failure or non-success HTTP status
ModelFailed(o) == o.kind \in {"transport", "http_error"}

NoOutcome == [kind |-> "none"]

VerifyTexts ==
  {Undef, Str(<<>>), Str(Rep(" ", 3)),
   Str(<<" ">> \o Rep("a", MIN_TEXT - 1) \o <<" ">>), Str(Rep("a", MIN_TEXT))}

Images == {Undef, Num(7), Text("BASE64"), Text("data:image/png;base64,BASE64")}

Requests(h) ==
  IF h = "heuristic" THEN {[method |-> m, text |-> x] : m \in Methods, x \in HeuristicTexts}
  ELSE IF h \in {"verify_ts", "verify_js"}
    THEN {[method |-> m, text |-> x] : m \in Methods, x \in VerifyTexts}
  ELSE {[method |-> m, image |-> x] : m \in Methods, x \in Images}

\* The text handlers read both keys on every request.  analyze.js builds its
\* SDK client from the key when the module loads, so its handler runs only
\* with the key present; the other handlers read no key.
Envs(h) ==
  IF h \in {"verify_ts", "verify_js"}
  THEN {[openai |-> o, tavily |-> v] : o \in BOOLEAN, v \in BOOLEAN}
  ELSE {[openai |-> TRUE, tavily |-> TRUE]}

Init ==
  /\ handler \in Handlers
  /\ req \in Requests(handler)
  /\ env \in Envs(handler)
  /\ pc = "start"
  /\ sources = <<>>
  /\ calls = <<>>
  /\ searchOutcome = NoOutcome
  /\ modelOutcome = NoOutcome
  /\ res = NoRes

(***************************************************************************)
(* src/api/verify.ts: text verify, variant A.  Line 86 of the file closes  *)
(* the template literal of the authorization header with a double quote;   *)
(* the handler is modelled as written, with that literal closed.  An       *)
(* exception that leaves the handler is answered by the platform with a    *)
(* 500 response.                                                           *)
(***************************************************************************)
Unhandled == Respond(500, ErrorBody("unhandled exception"))

TsLabels == {Str(S_GREEN), Str(S_YELLOW), Str(S_RED)}

TS_FALLBACK_SUMMARY == Text("Could not verify confidently. Review sources manually.")

\* r.content?.slice(0, 280) || ""
TsSnippetOf(r) ==
  LET c == Prop(r, "content")
  IN IF Nullish(c) THEN Str(<<>>)
     ELSE IF c.t = "string" THEN Or(Str(Slice(c.v, CONTENT_MAX)), Str(<<>>))
     ELSE IF c.t = "array" THEN Arr(Slice(c.v, CONTENT_MAX))
     ELSE Throw

\* one search result as a Source
TsSearchItem(r) ==
  Obj([title |-> Or(Prop(r, "title"), Or(Prop(r, "url"), Str(S_source))),
       url |-> Prop(r, "url"),
       snippet |-> TsSnippetOf(r)])

\* tavily?.results?.map(...)?.slice(0, 5) || []
TsSources(tavily) ==
  LET results == IF Nullish(tavily) THEN Undef ELSE Prop(tavily, "results")
  IN IF Nullish(results) THEN Arr(<<>>)
     ELSE IF results.t # "array" THEN Throw
     ELSE IF \E i \in 1..Len(results.v) :
               Nullish(results.v[i]) \/ TsSnippetOf(results.v[i]) = Throw
       THEN Throw
     ELSE Arr(Slice([i \in 1..Len(results.v) |-> TsSearchItem(results.v[i])], SOURCES_MAX))

\* fetch(...).then(r => r.json()).catch(() => null)
TsFetchJson(o) == IF o.kind = "json" THEN o.body ELSE Null

\* openaiResp?.choices?.[0]?.message?.content || "{}"
TsTxt(o) ==
  IF o.kind = "ok" /\ o.content.kind \notin {"missing", "empty"}
  THEN o.content
  ELSE Content("json", Obj(<<>>))

\* let out = null; try { out = JSON.parse(txt) } catch {}
TsParsed(o) == LET v == JsonParse(TsTxt(o)) IN IF v = Throw THEN Null ELSE v

TsFallback(srcs) ==
  Obj([label |-> Str(S_YELLOW),
       confidence |-> Tenths(5),
       summary |-> TS_FALLBACK_SUMMARY,
       sources |-> Arr([i \in 1..Len(srcs) |->
                          Obj([title |-> Get(srcs[i], "title"), url |-> Get(srcs[i], "url"),
                               snippet |-> Get(srcs[i], "snippet")])])])

\* !out || !out.label || !["GREEN","YELLOW","RED"].includes(out.label)
TsNeedsFallback(out) ==
  \/ ~Truthy(out)
  \/ ~Truthy(Prop(out, "label"))
  \/ Prop(out, "label") \notin TsLabels

\* !out.sources?.length
TsNoSources(sv) == sv.t \notin {"array", "string"} \/ Len(sv.v) = 0

\* s.title?.slice(0, 140) || "source"
TsTitle(e) ==
  LET tv == Prop(e, "title")
  IN IF Nullish(tv) THEN Str(S_source)
     ELSE IF tv.t = "string" THEN Or(Str(Slice(tv.v, TITLE_MAX)), Str(S_source))
     ELSE IF tv.t = "array" THEN Arr(Slice(tv.v, TITLE_MAX))
     ELSE Throw

\* the cut started one character late: slice(1, 220)
TsSnippet_SliceFromOne(e) ==
  LET sn == Prop(e, "snippet")
  IN IF Truthy(sn)
     THEN Str(SubSeq(JsString(sn), 2, Min(Len(JsString(sn)), SNIPPET_MAX)))
     ELSE Str(<<>>)

\* s.snippet ? String(s.snippet).slice(0, 220) : ""
TsSnippet(e) ==
  LET sn == Prop(e, "snippet")
  IN IF Truthy(sn) THEN Str(Slice(JsString(sn), SNIPPET_MAX)) ELSE Str(<<>>)

\* out.sources.slice(0, 5).map(...)
TsBoundSources(sv) ==
  IF sv.t # "array" THEN Throw
  ELSE LET cut == Slice(sv.v, SOURCES_MAX)
       IN IF \E i \in 1..Len(cut) : Nullish(cut[i]) \/ TsTitle(cut[i]) = Throw
          THEN Throw
          ELSE Arr([i \in 1..Len(cut) |->
                      Obj([title |-> TsTitle(cut[i]), url |-> Prop(cut[i], "url"),
                           snippet |-> TsSnippet(cut[i])])])

\* lines 100-122: the verdict built from the parsed reply, or Throw
TsNormalize(parsed, srcs) ==
  LET out1 == IF TsNeedsFallback(parsed) THEN TsFallback(srcs) ELSE parsed
      sv == IF TsNoSources(Get(out1, "sources")) THEN Arr(srcs) ELSE Get(out1, "sources")
      bounded == TsBoundSources(sv)
  IN IF bounded = Throw THEN Throw ELSE Put(out1, "sources", bounded)

Verdict(v) == [kind |-> "verdict", v |-> v]

\* jsonResponse(out), or the platform's answer to an exception nobody caught
TsFinish(parsed, srcs) ==
  LET out == TsNormalize(parsed, srcs)
  IN IF out = Throw THEN Unhandled ELSE Respond(200, Verdict(Stringify(out)))

\* !text || String(text).trim().length < 10
TsTextInvalid(x) == ~Truthy(x) \/ Len(Trim(JsString(x))) < MIN_TEXT

\* lines 31-41: the response that ends the request before any call, if any
TsEarly(r, e) ==
  IF r.method = "OPTIONS" THEN Respond(200, [kind |-> "empty"])
  ELSE IF r.method # "POST" THEN Respond(405, ErrorBody("Use POST"))
  ELSE IF TsTextInvalid(r.text) THEN Respond(400, ErrorBody("text is required"))
  ELSE IF ~e.tavily \/ ~e.openai THEN Respond(500, ErrorBody("Server not configured"))
  ELSE NoRes

TsStart ==
  /\ handler = "verify_ts"
  /\ pc = "start"
  /\ IF TsEarly(req, env) # NoRes
     THEN /\ res' = TsEarly(req, env)
          /\ pc' = "done"
          /\ UNCHANGED calls
     ELSE /\ calls' = Append(calls, "tavily")
          /\ pc' = "search"
          /\ UNCHANGED res
  /\ UNCHANGED <<handler, req, env, sources, searchOutcome, modelOutcome>>

TsSearchReturn ==
  /\ handler = "verify_ts"
  /\ pc = "search"
  /\ \E o \in SearchOutcomes :
       /\ searchOutcome' = o
       /\ IF TsSources(TsFetchJson(o)) = Throw
          THEN /\ res' = Unhandled
               /\ pc' = "done"
               /\ UNCHANGED <<sources, calls>>
          ELSE /\ sources' = TsSources(TsFetchJson(o)).v
               /\ calls' = Append(calls, "openai")
               /\ pc' = "model"
               /\ UNCHANGED res
  /\ UNCHANGED <<handler, req, env, modelOutcome>>

TsModelReturn ==
  /\ handler = "verify_ts"
  /\ pc = "model"
  /\ \E o \in ModelOutcomes("verify_ts") :
       /\ modelOutcome' = o
       /\ res' = TsFinish(TsParsed(o), sources)
  /\ pc' = "done"
  /\ UNCHANGED <<handler, req, env, sources, calls, searchOutcome>>

(***************************************************************************)
(* src/api/verify.js: text verify, variant B.                              *)
(***************************************************************************)
\* (req.query?.text ?? "").toString() / (req.body?.text ?? "").toString()
JsText(x) == IF Nullish(x) THEN <<>> ELSE JsString(x)

\* the key check left out
JsEarly_NoKeyCheck(r, e) ==
  IF r.method = "OPTIONS" THEN Respond(204, [kind |-> "empty"])
  ELSE IF r.method \notin {"GET", "POST"} THEN Respond(405, ErrorBody("Method not allowed. Use GET or POST."))
  ELSE IF Len(JsText(r.text)) = 0 \/ Len(Trim(JsText(r.text))) = 0
    THEN Respond(400, ErrorBody("Please provide 'text' to verify."))
  ELSE NoRes

\* lines 16-39: the response that ends the request before any call, if any
JsEarly(r, e) ==
  IF r.method = "OPTIONS" THEN Respond(204, [kind |-> "empty"])
  ELSE IF ~e.openai THEN Respond(500, ErrorBody("Server is missing OPENAI_API_KEY"))
  ELSE IF r.method \notin {"GET", "POST"} THEN Respond(405, ErrorBody("Method not allowed. Use GET or POST."))
  ELSE IF Len(JsText(r.text)) = 0 \/ Len(Trim(JsText(r.text))) = 0
    THEN Respond(400, ErrorBody("Please provide 'text' to verify."))
  ELSE NoRes

\* one item of tjson.results as { title, url }
JsSearchItem(r) ==
  Obj([title |-> Or(Prop(r, "title"), Or(Prop(r, "source"), Str(S_source))),
       url |-> Or(Prop(r, "url"), Or(Prop(r, "link"), Or(Prop(r, "href"), Str(<<>>))))])

\* items.map(...).filter((s) => s.url)
JsKeepWithUrl(l) == SelectSeq(l, LAMBDA e : Truthy(Get(e, "url")))

\* lines 46-74: webSources after the search attempt; every exception of the
\* try block leaves webSources at []
JsWebSources(o) ==
  IF o.kind # "json" \/ ~o.ok THEN <<>>
  ELSE IF Nullish(o.body) THEN <<>>
  ELSE LET items == Or(Prop(o.body, "results"), Or(Prop(o.body, "data"), Arr(<<>>)))
       IN IF items.t # "array" THEN <<>>
          ELSE IF \E i \in 1..Len(items.v) : Nullish(items.v[i]) THEN <<>>
          ELSE JsKeepWithUrl([i \in 1..Len(items.v) |-> JsSearchItem(items.v[i])])

\* safeJson(s): JSON.parse of the first {...} block, or of s; null on failure
safeJson(c) ==
  CASE c.kind = "json" -> c.value
    [] c.kind = "wrapped" -> c.value
    [] OTHER -> Null

\* toTraffic(v)
toTraffic(v) ==
  LET s == ToLowerCase(Trim(JsString(Or(v, Str(<<>>)))))
  IN IF StartsWith(s, "g") THEN Str(S_green)
     ELSE IF StartsWith(s, "y") THEN Str(S_yellow)
     ELSE IF StartsWith(s, "r") THEN Str(S_red)
     ELSE Str(S_yellow)

\* json.sources.map(...).filter((s) => s.url), or Throw
JsProviderSources(sv) ==
  IF \E i \in 1..Len(sv.v) : Nullish(sv.v[i]) THEN Throw
  ELSE Arr(JsKeepWithUrl([i \in 1..Len(sv.v) |->
             Obj([title |-> Str(JsString(Or(Prop(sv.v[i], "title"), Str(S_source)))),
                  url |-> Str(JsString(Or(Prop(sv.v[i], "url"), Str(<<>>))))])]))

\* lines 141-153: the normalized output, or Throw
JsNormalize(json, webSources) ==
  LET sv == Prop(json, "sources")
      srcs == IF sv.t = "array" THEN JsProviderSources(sv) ELSE Arr(webSources)
  IN IF srcs = Throw THEN Throw
     ELSE Obj([verdict |-> toTraffic(Prop(json, "verdict")),
               rationale |-> Str(JsString(Or(Prop(json, "rationale"), Str(<<>>)))),
               sources |-> srcs])

\* oaiJson?.choices?.[0]?.message?.content || ""
JsContent(o) == IF o.content.kind = "missing" THEN Content("empty", Undef) ELSE o.content

\* a failed model call read as an empty JSON reply, as variant A does
JsFinish_SoftFail(o, webSources) ==
  LET json == IF o.kind = "ok" THEN safeJson(JsContent(o)) ELSE Obj(<<>>)
  IN IF ~Truthy(json) THEN Respond(500, ErrorBody("Could not parse model output"))
     ELSE IF JsNormalize(json, webSources) = Throw THEN Respond(500, ErrorBody("Server error"))
     ELSE Respond(200, Verdict(Stringify(JsNormalize(json, webSources))))

\* lines 108-158: the response once the model call returned
JsFinish(o, webSources) ==
  IF o.kind \in {"transport", "badbody"} THEN Respond(500, ErrorBody("Server error"))
  ELSE IF o.kind = "http_error" THEN Respond(500, ErrorBody("OpenAI error"))
  ELSE LET json == safeJson(JsContent(o))
       IN IF ~Truthy(json) THEN Respond(500, ErrorBody("Could not parse model output"))
          ELSE IF JsNormalize(json, webSources) = Throw THEN Respond(500, ErrorBody("Server error"))
          ELSE Respond(200, Verdict(Stringify(JsNormalize(json, webSources))))

JsStart ==
  /\ handler = "verify_js"
  /\ pc = "start"
  /\ IF JsEarly(req, env) # NoRes
     THEN /\ res' = JsEarly(req, env)
          /\ pc' = "done"
          /\ UNCHANGED calls
     ELSE IF env.tavily
     THEN /\ calls' = Append(calls, "tavily")
          /\ pc' = "search"
          /\ UNCHANGED res
     ELSE /\ calls' = Append(calls, "openai")
          /\ pc' = "model"
          /\ UNCHANGED res
  /\ UNCHANGED <<handler, req, env, sources, searchOutcome, modelOutcome>>

JsSearchReturn ==
  /\ handler = "verify_js"
  /\ pc = "search"
  /\ \E o \in SearchOutcomes :
       /\ searchOutcome' = o
       /\ sources' = JsWebSources(o)
  /\ calls' = Append(calls, "openai")
  /\ pc' = "model"
  /\ UNCHANGED <<handler, req, env, modelOutcome, res>>

JsModelReturn ==
  /\ handler = "verify_js"
  /\ pc = "model"
  /\ \E o \in ModelOutcomes("verify_js") :
       /\ modelOutcome' = o
       /\ res' = JsFinish(o, sources)
  /\ pc' = "done"
  /\ UNCHANGED <<handler, req, env, sources, calls, searchOutcome>>

(***************************************************************************)
(* src/api/analyze.js: image verify.                                       *)
(***************************************************************************)
AN_FALLBACK ==
  Obj([verdict |-> Text("UNVERIFIABLE"),
       claim |-> Text("Could not parse claim reliably"),
       explanation |-> Text("The AI response was not valid JSON. Please retry. (We can tighten formatting next.)")])

\* lines 11-28: the response that ends the request before the model call
AnEarly(r) ==
  IF r.method = "OPTIONS" THEN Respond(200, [kind |-> "empty"])
  ELSE IF r.method # "POST" THEN Respond(405, ErrorBody("Only POST allowed"))
  ELSE IF ~Truthy(r.image) \/ r.image.t # "string"
    THEN Respond(400, ErrorBody("Missing or invalid 'image_base64' in JSON body"))
  ELSE NoRes

\* result.output_text?.trim() || ""
AnRaw(o) == IF o.content.kind = "missing" THEN Content("empty", Undef) ELSE o.content

\* lines 69-97: the response once client.responses.create settled
AnFinish(o) ==
  IF o.kind # "ok" THEN Respond(500, ErrorBody("Server error"))
  ELSE LET parsed == JsonParse(AnRaw(o))
       IN IF parsed = Throw THEN Respond(200, Verdict(Put(AN_FALLBACK, "raw", Text(AnRaw(o).kind))))
          ELSE IF Nullish(parsed) THEN Respond(500, ErrorBody("Server error"))
          ELSE Respond(200, Verdict(Stringify(
                 Obj([verdict |-> Or(Prop(parsed, "verdict"), Text("UNVERIFIABLE")),
                      claim |-> Or(Prop(parsed, "claim"), Str(<<>>)),
                      explanation |-> Or(Prop(parsed, "explanation"), Str(<<>>))]))))

AnalyzeStart ==
  /\ handler = "analyze"
  /\ pc = "start"
  /\ IF AnEarly(req) # NoRes
     THEN /\ res' = AnEarly(req)
          /\ pc' = "done"
          /\ UNCHANGED calls
     ELSE /\ calls' = Append(calls, "openai")
          /\ pc' = "model"
          /\ UNCHANGED res
  /\ UNCHANGED <<handler, req, env, sources, searchOutcome, modelOutcome>>

AnalyzeModelReturn ==
  /\ handler = "analyze"
  /\ pc = "model"
  /\ \E o \in ModelOutcomes("analyze") :
       /\ modelOutcome' = o
       /\ res' = AnFinish(o)
  /\ pc' = "done"
  /\ UNCHANGED <<handler, req, env, sources, calls, searchOutcome>>

(***************************************************************************)
(* src/unnamed/part_000: the placeholder image endpoint.                   *)
(***************************************************************************)
PlaceholderResponse(r) ==
  IF r.method # "POST" THEN Respond(405, ErrorBody("Only POST allowed"))
  ELSE IF ~Truthy(r.image) THEN Respond(400, ErrorBody("No image received"))
  ELSE Respond(200, Verdict(Obj([verdict |-> Text("MISLEADING"),
                                 confidence |-> [t |-> "number", v |-> 76, unit |-> "hundredth"],
                                 explanation |-> Text("This is a placeholder analysis.")])))

PlaceholderHandle ==
  /\ handler = "placeholder"
  /\ pc = "start"
  /\ res' = PlaceholderResponse(req)
  /\ pc' = "done"
  /\ UNCHANGED <<handler, req, env, sources, calls, searchOutcome, modelOutcome>>

Next ==
  \/ HeuristicHandle
  \/ TsStart \/ TsSearchReturn \/ TsModelReturn
  \/ JsStart \/ JsSearchReturn \/ JsModelReturn
  \/ AnalyzeStart \/ AnalyzeModelReturn
  \/ PlaceholderHandle

Spec == Init /\ [][Next]_vars


(***************************************************************************)
(* Vocabulary of the properties.                                           *)
(***************************************************************************)
Done == pc = "done"

\* the request ended with a 200 response that carries a verdict
IsVerdict == Done /\ res.status = 200 /\ res.body.kind = "verdict"

ModelBacked == {"verify_ts", "verify_js", "analyze"}

TextHandlers == {"verify_ts", "verify_js"}

LabelField(h) == IF h = "verify_ts" THEN "label" ELSE "verdict"

JsLabels == {Str(S_green), Str(S_yellow), Str(S_red)}

ImageLabels == {Text("TRUE"), Text("MISLEADING"), Text("FALSE"), Text("UNVERIFIABLE")}

TierSet(h) ==
  IF h = "verify_ts" THEN TsLabels
  ELSE IF h = "verify_js" THEN JsLabels
  ELSE ImageLabels

UncertainTier(h) ==
  IF h = "verify_ts" THEN Str(S_YELLOW)
  ELSE IF h = "verify_js" THEN Str(S_yellow)
  ELSE Text("UNVERIFIABLE")

\* the JSON value the handler's own parser makes of the model reply
ParsedReply ==
  IF handler = "verify_ts" THEN TsParsed(modelOutcome)
  ELSE IF handler = "verify_js" THEN safeJson(JsContent(modelOutcome))
  ELSE IF JsonParse(AnRaw(modelOutcome)) = Throw THEN Null
  ELSE JsonParse(AnRaw(modelOutcome))

\* the reply is no JSON at all, or JSON without a label
NoUsableLabel ==
  \/ modelOutcome.content.kind \in {"text", "empty", "missing"}
  \/ ~Truthy(Prop(modelOutcome.content.value, LabelField(handler)))

Urls(l) == [i \in 1..Len(l) |-> Prop(l[i], "url")]

ReturnedSources == Get(res.body.v, "sources")

\* the sources array of the model reply, when it has one
ProviderList ==
  LET sv == Prop(ParsedReply, "sources") IN IF sv.t = "array" THEN sv.v ELSE <<>>

WithUrl(l) == SelectSeq(l, LAMBDA e : Truthy(Prop(e, "url")))

\* the raw results array of the search reply, when it has one
SearchList ==
  IF searchOutcome.kind = "json" /\ Prop(searchOutcome.body, "results").t = "array"
  THEN Prop(searchOutcome.body, "results").v
  ELSE <<>>

RECURSIVE IsSubseq(_, _)
IsSubseq(a, b) ==
  IF Len(a) = 0 THEN TRUE
  ELSE IF Len(b) = 0 THEN FALSE
  ELSE IF a[1] = b[1] THEN IsSubseq(Tail(a), Tail(b))
  ELSE IsSubseq(a, Tail(b))

WellFormed(h, v) ==
  /\ Get(v, LabelField(h)) \in TierSet(h)
  /\ IF h = "verify_ts"
     THEN /\ Get(v, "confidence").t = "number"
          /\ Get(v, "summary").t = "string"
          /\ Get(v, "sources").t = "array"
     ELSE IF h = "verify_js"
     THEN /\ Get(v, "rationale").t = "string"
          /\ Get(v, "sources").t = "array"
     ELSE /\ Get(v, "claim").t = "string"
          /\ Get(v, "explanation").t = "string"

IsFallbackVerdict(h, v) ==
  /\ Get(v, LabelField(h)) = UncertainTier(h)
  /\ h = "verify_ts" => Get(v, "summary") = TS_FALLBACK_SUMMARY
  /\ h = "analyze" => Get(v, "explanation") = Get(AN_FALLBACK, "explanation")
  /\ h \in TextHandlers => Urls(Get(v, "sources").v) = Urls(sources)

(***************************************************************************)
(* C1.  Every model reply that a handler received (valid JSON, JSON        *)
(* wrapped in prose, plain text, empty or missing content) is answered     *)
(* with a structurally valid 200 verdict, and a reply that cannot be       *)
(* parsed or has no usable label is answered with the fallback verdict.    *)
(***************************************************************************)
C1_AlwaysValidVerdict ==
  (Done /\ handler \in ModelBacked /\ modelOutcome.kind = "ok") =>
     /\ res.status = 200
     /\ res.body.kind = "verdict"
     /\ WellFormed(handler, res.body.v)
     /\ NoUsableLabel => IsFallbackVerdict(handler, res.body.v)

(***************************************************************************)
(* C2.  The label of every 200 verdict is a member of the closed tier set  *)
(* of its handler.                                                         *)
(***************************************************************************)
C2_LabelInTierSet ==
  IsVerdict =>
    IF handler = "heuristic" THEN res.body.color \in {"green", "yellow", "red"}
    ELSE Get(res.body.v, LabelField(handler)) \in TierSet(handler)

(***************************************************************************)
(* C3.  The confidence of a returned verdict of variant A lies in [0,1]:   *)
(* a supplied number is clamped to the nearest bound, a missing or         *)
(* non-numeric value becomes 0.5.                                          *)
(***************************************************************************)
ClampedConfidence(given) ==
  IF given.t # "number" THEN Tenths(5)
  ELSE IF given.v > 10 THEN Tenths(10)
  ELSE IF given.v < 0 THEN Tenths(0)
  ELSE given

C3_ConfidenceClamped ==
  (handler = "verify_ts" /\ IsVerdict /\ modelOutcome.kind = "ok") =>
     LET c == Get(res.body.v, "confidence")
     IN /\ c.t = "number"
        /\ c.v >= 0
        /\ c.v <= 10
        /\ ~TsNeedsFallback(ParsedReply) => c = ClampedConfidence(Prop(ParsedReply, "confidence"))

(***************************************************************************)
(* C4.  The returned sources are at most min(N, 5) entries of the list     *)
(* they are taken from (the reply's list of length N, else the search      *)
(* results), in their original order, with titles of at most 140 and       *)
(* snippets of at most 280 characters.                                     *)
(***************************************************************************)
UsedList == IF Len(ProviderList) > 0 THEN ProviderList ELSE SearchList

C4_SourcesBounded ==
  (handler \in TextHandlers /\ IsVerdict /\ modelOutcome.kind = "ok") =>
     /\ ReturnedSources.t = "array"
     /\ Len(ReturnedSources.v) <= Min(Len(UsedList), SOURCES_MAX)
     /\ IsSubseq(Urls(ReturnedSources.v), Urls(UsedList))
     /\ \A i \in 1..Len(ReturnedSources.v) :
          /\ Len(Get(ReturnedSources.v[i], "title").v) <= TITLE_MAX
          /\ Prop(ReturnedSources.v[i], "snippet").t = "string"
               => Len(Get(ReturnedSources.v[i], "snippet").v) <= CONTENT_MAX


Called(c) == \E i \in 1..Len(calls) : calls[i] = c

C6_SearchFailsSoft ==
  (handler \in TextHandlers /\ searchOutcome # NoOutcome /\ SearchFailed(searchOutcome)) =>
     /\ Called("openai")
     /\ sources = <<>>
     /\ res # Unhandled

(***************************************************************************)
(* C7.  In the text handlers, without the model key the request ends with  *)
(* a 500 configuration error and no outbound call; without only the        *)
(* search key the search is skipped and the model call is still made.      *)
(***************************************************************************)
ValidRequest ==
  IF handler = "verify_ts" THEN req.method = "POST" /\ ~TsTextInvalid(req.text)
  ELSE req.method \in {"GET", "POST"} /\ Len(Trim(JsText(req.text))) > 0

C7_KeysBothVariants ==
  (handler \in TextHandlers /\ Done /\ ValidRequest) =>
     /\ ~env.openai => (res.status = 500 /\ res.body.kind = "error" /\ calls = <<>>)
     /\ (env.openai /\ ~env.tavily) => (~Called("tavily") /\ Called("openai"))

\* C7 as amended: without the model key no outbound call is made and every
\* request that passes the checks placed before the key check (method and
\* text in variant A, only OPTIONS in variant B) ends with the 500
\* configuration error; without only the search key variant B skips the
\* search and still calls the model, variant A ends with the same 500
\* configuration error and no outbound call.
C7_KeysPerVariant ==
  handler \in TextHandlers =>
     /\ ~env.openai =>
          /\ calls = <<>>
          /\ (Done /\ IF handler = "verify_ts" THEN ValidRequest ELSE req.method # "OPTIONS")
               => (res.status = 500 /\ res.body.kind = "error")
     /\ (handler = "verify_js" /\ env.openai /\ ~env.tavily) =>
          /\ ~Called("tavily")
          /\ (Done /\ ValidRequest) => Called("openai")
     /\ (handler = "verify_ts" /\ ~env.tavily) =>
          /\ calls = <<>>
          /\ (Done /\ ValidRequest) => res = Respond(500, ErrorBody("Server not configured"))

C7_Witness ==
  /\ handler = "verify_js"
  /\ Done
  /\ env.openai
  /\ ~env.tavily
  /\ calls = <<"openai">>
  /\ res.status = 200

(***************************************************************************)
(* C8.  Entries of the reply's sources list without a non-empty url are    *)
(* dropped from the returned verdict, and when the reply's list is absent  *)
(* or empty after dropping, the returned sources are the search results.   *)
(***************************************************************************)
C8_SourcesReconciled ==
  (handler \in TextHandlers /\ IsVerdict /\ modelOutcome.kind = "ok") =>
     /\ ReturnedSources.t = "array"
     /\ \/ \A i \in 1..Len(ReturnedSources.v) : Truthy(Prop(ReturnedSources.v[i], "url"))
        \/ Urls(ReturnedSources.v) = Urls(sources)
     /\ Len(WithUrl(ProviderList)) = 0 => Urls(ReturnedSources.v) = Urls(sources)

(***************************************************************************)
(* C9.  Normalization is idempotent: the returned verdict, serialized and  *)
(* fed back as the model reply with the same search sources, yields a      *)
(* verdict with the same label, confidence, summary and sources.           *)
(***************************************************************************)
VerdictKeys ==
  {"label", "verdict", "confidence", "summary", "rationale", "claim", "explanation", "sources"}

\* the response to the returned verdict fed back as the model reply
Refed ==
  LET o == [kind |-> "ok", content |-> Content("json", res.body.v)]
  IN IF handler = "verify_ts" THEN TsFinish(TsParsed(o), sources)
     ELSE IF handler = "verify_js" THEN JsFinish(o, sources)
     ELSE AnFinish(o)

C9_Idempotent ==
  (handler \in ModelBacked /\ IsVerdict /\ modelOutcome # NoOutcome) =>
     /\ Refed.status = 200
     /\ Refed.body.kind = "verdict"
     /\ \A k \in VerdictKeys : Prop(Refed.body.v, k) = Prop(res.body.v, k)

C9_Witness ==
  /\ handler = "verify_ts"
  /\ IsVerdict
  /\ modelOutcome.kind = "ok"
  /\ ~TsNeedsFallback(ParsedReply)
  /\ Len(ProviderList) > SOURCES_MAX
  /\ Len(ReturnedSources.v) = SOURCES_MAX
  /\ \E i \in 1..SOURCES_MAX : Len(Get(ReturnedSources.v[i], "snippet").v) = SNIPPET_MAX

(***************************************************************************)
(* C10.  The heuristic handler's confidence lies between 0.2 and 0.65,     *)
(* its label and color are the ones the thresholds select (score >= 0.75   *)
(* green, score <= 0.35 red, otherwise yellow), and it never returns       *)
(* 'Likely True'/green.                                                    *)
(***************************************************************************)
ByThresholds(c, label, color) ==
  IF FLe(D0_75, c) THEN label = "Likely True" /\ color = "green"
  ELSE IF FLe(c, D0_35) THEN label = "Likely False" /\ color = "red"
  ELSE label = "Needs Review" /\ color = "yellow"

C10_ScoreRange ==
  (handler = "heuristic" /\ IsVerdict) =>
     /\ FLe(D0_2, res.body.confidence)
     /\ FLe(res.body.confidence, D0_65)
     /\ ByThresholds(res.body.confidence, res.body.label, res.body.color)
     /\ res.body.color # "green"

\* 0.19999999999999998, the double below 0.2 that 0.5 - 0.2 - 0.1 evaluates to
D0_2_BELOW == Dbl(53687091, 107374180)

\* C10 as amended: the confidence lies between 0.19999999999999998 (the
\* floating-point value of 0.5 - 0.2 - 0.1) and 0.65; the rest as claimed.
C10_ScoreRangeRounded ==
  (handler = "heuristic" /\ IsVerdict) =>
     /\ FLe(D0_2_BELOW, res.body.confidence)
     /\ FLe(res.body.confidence, D0_65)
     /\ ByThresholds(res.body.confidence, res.body.label, res.body.color)
     /\ res.body.color # "green"

C10_Witness ==
  /\ handler = "heuristic"
  /\ IsVerdict
  /\ res.body.confidence = D0_2_BELOW
  /\ res.body.color = "red"

====
